---- MODULE Spec2Model ----
(***************************************************************************)
(* The job-orchestration layer of the EquityLens calculation engine        *)
(* (src/calculation_engine/server.py): the in-memory job table, the four   *)
(* submission endpoints, the four execute_* background coroutines, the     *)
(* status endpoint and the hourly cleanup loop.                            *)
(*                                                                         *)
(* All coroutines run on one asyncio event loop.  No execute_* coroutine   *)
(* and no request handler contains an await, so each runs from its first   *)
(* statement to its return without any other coroutine running in between. *)
(* The model executes a background task statement by statement (variable   *)
(* cur holds its position) and enables no other action while a task is     *)
(* executing.                                                              *)
(*                                                                         *)
(* progress is kept in tenths: 0, 1, 3, ... 10 stand for 0, 0.1, 0.3, ...  *)
(* 1.0.  Python's None is the empty tuple; an exception text is a tuple of *)
(* string fragments.  A job id is kept as the sequence of its '_'-separated*)
(* segments, which is what job_id.split('_') returns.                      *)
(***************************************************************************)
EXTENDS Integers, Sequences, FiniteSets, TLC

VARIABLES
    calculation_jobs,   \* server.py:52, the job table: job id -> job record
    background,         \* the background tasks added so far, in submission order
    cur,                \* the execute_* coroutine now running, or Idle
    now,                \* the wall clock read by datetime.now().timestamp(), in seconds
    response,           \* the response of the request handler that ran in this step
    call                \* the last direct call of an engine function: name, arguments, outcome

vars == <<calculation_jobs, background, cur, now, response, call>>

----------------------------------------------------------------------------
\* Bounds of the model.
MaxSubmissions == 2

\* Program constant: the retention window of cleanup_old_jobs.
RetentionSeconds == 3600

\* The clock is observed once per retention window, over two windows: a job's
\* age is below, equal to or above the retention window.
TickSeconds == RetentionSeconds
MaxTime == 2 * RetentionSeconds

None == <<>>

PortfolioIds == {1}

----------------------------------------------------------------------------
\* Requests.  One record shape for the four request models:
\*   portfolio_id        0 stands for an absent portfolio_id (OptimizationRequest)
\*   name                calculation_type, objective or factor_model
\*   include_positions   PortfolioRequest.include_positions
\*   days                business days in [start_date, end_date]

PortfolioRequest ==
    [kind : {"portfolio"}, portfolio_id : PortfolioIds, name : {""},
     include_positions : BOOLEAN, days : {30}]

RiskAnalysisRequest ==
    [kind : {"risk"}, portfolio_id : PortfolioIds,
     name : {"var", "stress_test", "liquidity"},
     include_positions : {FALSE}, days : {0}]

OptimizationRequest ==
    [kind : {"optimization"}, portfolio_id : PortfolioIds,
     name : {"max_sharpe", "min_cvar"},
     include_positions : {FALSE}, days : {30}]

FactorAnalysisRequest ==
    [kind : {"factor"}, portfolio_id : PortfolioIds,
     name : {"fama_french_3", "carhart_4"},
     include_positions : {FALSE}, days : {30}]

NoRequest ==
    [kind |-> "", portfolio_id |-> 0, name |-> "", include_positions |-> FALSE, days |-> 0]

\* The '_'-separated segments of a request string.
Segments(name) ==
    CASE name = "max_sharpe" -> <<"max", "sharpe">>
      [] name = "min_volatility" -> <<"min", "volatility">>
      [] name = "max_return" -> <<"max", "return">>
      [] name = "min_cvar" -> <<"min", "cvar">>
      [] OTHER -> <<name>>

\* f"{prefix}_{tag}_{datetime.now().timestamp()}"
JobId(prefix, tag, timestamp) == <<prefix>> \o tag \o <<timestamp>>

\* float(job_id.split('_')[-1])
JobTime(job_id) == job_id[Len(job_id)]

\* A submission that stores the job as already running.
QueuedJobRunning ==
    [status |-> "running", progress |-> 0, result |-> None, error |-> None]

\* {"status": "queued", "progress": 0, "result": None, "error": None}
QueuedJob == [status |-> "queued", progress |-> 0, result |-> None, error |-> None]

Terminal == {"completed", "failed"}

----------------------------------------------------------------------------
Idle == [task |-> 0, block |-> "", pc |-> 0, exc |-> None]

NoResponse ==
    [endpoint |-> "", code |-> 0, job_id |-> None, status |-> "",
     progress |-> 0, result |-> None, error |-> None]

\* No engine function has been called directly.
NoCall == [fn |-> "", done |-> FALSE]

Init ==
    /\ calculation_jobs = [id \in {} |-> QueuedJob]
    /\ background = <<>>
    /\ cur = Idle
    /\ now = 0
    /\ response = NoResponse
    /\ call = NoCall

----------------------------------------------------------------------------
\* The statements of the execute_* coroutines.

SetStatus(s) == [op |-> "status", status |-> s, progress |-> 0, fn |-> ""]
SetProgress(p) == [op |-> "progress", status |-> "", progress |-> p, fn |-> ""]
SetResult == [op |-> "result", status |-> "", progress |-> 0, fn |-> ""]
SetError == [op |-> "error", status |-> "", progress |-> 0, fn |-> ""]
Call(f) == [op |-> "call", status |-> "", progress |-> 0, fn |-> f]

execute_portfolio_analytics(req) ==
    << SetStatus("running"),
       Call("SessionLocal"),
       SetProgress(1),
       Call("get_portfolio_data"),
       SetProgress(3),
       Call("calculate_performance_metrics"),
       SetProgress(6),
       Call("calculate_attribution"),
       SetProgress(9),
       Call("combine_results"),
       SetStatus("completed"),
       SetProgress(10),
       SetResult >>

execute_risk_analysis(req) ==
    << SetStatus("running"),
       Call("SessionLocal"),
       SetProgress(1),
       Call(IF req.name = "var" THEN "calculate_var"
            ELSE IF req.name = "stress_test" THEN "run_stress_test"
            ELSE "raise_unknown_calculation_type"),
       SetStatus("completed"),
       SetProgress(10),
       SetResult >>

\* Inside execute_optimization the name constraints is the parameter (the
\* request's dict), not the imported module.
execute_optimization(req) ==
    << SetStatus("running"),
       Call("SessionLocal"),
       SetProgress(1),
       Call(IF req.portfolio_id # 0 THEN "get_portfolio_universe" ELSE "get_symbols_data"),
       SetProgress(3),
       Call("constraints_build_constraint_set"),
       SetProgress(5),
       Call(IF req.name = "max_sharpe" THEN "maximize_sharpe_ratio"
            ELSE IF req.name = "min_volatility" THEN "minimize_volatility"
            ELSE IF req.name = "max_return" THEN "maximize_return"
            ELSE "raise_unknown_objective"),
       SetStatus("completed"),
       SetProgress(10),
       SetResult >>

execute_factor_analysis(req) ==
    << SetStatus("running"),
       Call("SessionLocal"),
       SetProgress(1),
       Call("get_portfolio_data"),
       SetProgress(3),
       Call("get_factor_returns"),
       SetProgress(5),
       Call("calculate_exposures"),
       SetProgress(7),
       Call("exposures_calculate_attribution"),
       SetProgress(9),
       SetStatus("completed"),
       SetProgress(10),
       SetResult >>

\* An except clause that marks the job failed and drops the exception's text.
ExceptHandlerNoError == << SetStatus("failed") >>

\* An except clause that records the text and leaves the status as it is.
ExceptHandlerNoStatus == << SetError >>

\* except Exception as e: status = "failed"; error = str(e)
ExceptHandler == << SetStatus("failed"), SetError >>

Program(req) ==
    CASE req.kind = "portfolio" -> execute_portfolio_analytics(req)
      [] req.kind = "risk" -> execute_risk_analysis(req)
      [] req.kind = "optimization" -> execute_optimization(req)
      [] req.kind = "factor" -> execute_factor_analysis(req)

----------------------------------------------------------------------------
\* What each callee can do: None when it returns, else the text of the
\* exception it raises.

\* portfolio_analytics.get_portfolio_data with start_date = end_date = None:
\* pd.date_range(start=None, end=None, freq='B') raises ValueError; with a
\* package layout that has no calculation_engine package the import raises.
NoDateRange ==
    { <<"No module named 'calculation_engine'">>,
      <<"Of the four parameters: start, end, periods, and freq, exactly three must be specified">> }

\* 252 / len(returns_df) with an empty return series
PerformanceMetricsOutcomes(req) ==
    IF req.days < 2 THEN { <<"division by zero">> } ELSE { None }

\* portfolio_data is a dict: portfolio_data.to_dict() if include_positions else {}
CombineResultsOutcomes(req) ==
    IF req.include_positions
    THEN { <<"'dict' object has no attribute 'to_dict'">> } ELSE { None }

FactorReturnsOutcomes(req) ==
    IF req.name \in {"fama_french_3", "fama_french_5"}
    THEN { None } ELSE { <<"Unknown factor model: ", req.name>> }

\* exposures.py imports neither pandas nor statsmodels
ExposuresOutcomes ==
    { <<"No module named 'calculation_engine'">>, <<"name 'pd' is not defined">> }

CallOutcomes(f, req) ==
    CASE f = "SessionLocal" -> { None }
      [] f = "get_portfolio_data" -> { None }
      [] f = "get_portfolio_universe" -> { None }
      [] f = "get_symbols_data" -> { None }
      [] f = "calculate_performance_metrics" -> PerformanceMetricsOutcomes(req)
      [] f = "calculate_attribution" -> { None }
      [] f = "combine_results" -> CombineResultsOutcomes(req)
      [] f = "calculate_var" -> NoDateRange
      [] f = "run_stress_test" -> NoDateRange
      [] f = "raise_unknown_calculation_type" ->
            { <<"Unknown calculation type: ", req.name>> }
      [] f = "constraints_build_constraint_set" ->
            { <<"'dict' object has no attribute 'build_constraint_set'">> }
      [] f = "maximize_sharpe_ratio" -> { None }
      [] f = "minimize_volatility" -> { None }
      [] f = "maximize_return" -> { None }
      [] f = "raise_unknown_objective" -> { <<"Unknown objective: ", req.name>> }
      [] f = "get_factor_returns" -> FactorReturnsOutcomes(req)
      [] f = "calculate_exposures" -> ExposuresOutcomes
      [] f = "exposures_calculate_attribution" -> ExposuresOutcomes

----------------------------------------------------------------------------
\* The job table.

Put(jobs, job_id, job) ==
    [id \in DOMAIN jobs \cup {job_id} |-> IF id = job_id THEN job ELSE jobs[id]]

Remove(jobs, ids) == [id \in DOMAIN jobs \ ids |-> jobs[id]]

\* The value a task's execution stores as result.
Result(n) == <<"result", n>>

\* calculation_jobs[job_id][key] = value
Assign(job, stmt, n, exc) ==
    CASE stmt.op = "status" -> [job EXCEPT !.status = stmt.status]
      [] stmt.op = "progress" -> [job EXCEPT !.progress = stmt.progress]
      [] stmt.op = "result" -> [job EXCEPT !.result = Result(n)]
      [] stmt.op = "error" -> [job EXCEPT !.error = exc]

\* background_tasks.add_task(execute_*, job_id, ...)
Task(job_id, req) ==
    [job_id |-> job_id, request |-> req, state |-> "scheduled", exc |-> None]

Submit(job_id, req) ==
    /\ cur = Idle
    /\ Len(background) < MaxSubmissions
    /\ calculation_jobs' = Put(calculation_jobs, job_id, QueuedJob)
    /\ background' = Append(background, Task(job_id, req))
    /\ response' = [NoResponse EXCEPT !.endpoint = "submit", !.code = 200,
                                      !.job_id = job_id]
    /\ UNCHANGED <<cur, now, call>>

run_portfolio_analytics(req) ==
    Submit(JobId("portfolio", <<req.portfolio_id>>, now), req)

run_risk_analysis(req) ==
    Submit(JobId("risk", <<req.portfolio_id>>, now), req)

run_optimization(req) ==
    Submit(JobId("optimization", Segments(req.name), now), req)

run_factor_analysis(req) ==
    Submit(JobId("factor", <<req.portfolio_id>>, now), req)

----------------------------------------------------------------------------
\* Execution of a background task.

\* The coroutine ends; its arguments are dropped with its frame.
Finish(n, state, exc) ==
    /\ background' = [background EXCEPT ![n].state = state, ![n].exc = exc,
                                        ![n].request = NoRequest]
    /\ cur' = Idle

\* The coroutine is called and runs its first statement, which is outside
\* the try block: calculation_jobs[job_id]["status"] = "running".
Begin(n) ==
    /\ cur = Idle
    /\ n \in 1..Len(background)
    /\ background[n].state = "scheduled"
    /\ LET t == background[n]
           stmt == Program(t.request)[1]
       IN IF t.job_id \in DOMAIN calculation_jobs
          THEN /\ calculation_jobs' =
                    [calculation_jobs EXCEPT ![t.job_id] = Assign(@, stmt, n, None)]
               /\ background' = [background EXCEPT ![n].state = "running"]
               /\ cur' = [task |-> n, block |-> "try", pc |-> 2, exc |-> None]
          ELSE \* KeyError, raised outside the try block
               /\ Finish(n, "raised", <<"KeyError">>)
               /\ UNCHANGED calculation_jobs
    /\ response' = NoResponse
    /\ UNCHANGED <<now, call>>

CurTask == background[cur.task]
CurStmt ==
    IF cur.block = "try" THEN Program(CurTask.request)[cur.pc] ELSE ExceptHandler[cur.pc]
CurLast ==
    IF cur.block = "try" THEN Len(Program(CurTask.request)) ELSE Len(ExceptHandler)

\* A call inside the try block returns.
ExecCall ==
    /\ cur.block = "try"
    /\ CurStmt.op = "call"
    /\ None \in CallOutcomes(CurStmt.fn, CurTask.request)
    /\ cur' = [cur EXCEPT !.pc = @ + 1]
    /\ response' = NoResponse
    /\ UNCHANGED <<calculation_jobs, background, now, call>>

\* A call inside the try block raises: control goes to the except clause.
ExecRaise ==
    /\ cur.block = "try"
    /\ CurStmt.op = "call"
    /\ \E e \in CallOutcomes(CurStmt.fn, CurTask.request) \ {None} :
          cur' = [cur EXCEPT !.block = "except", !.pc = 1, !.exc = e]
    /\ response' = NoResponse
    /\ UNCHANGED <<calculation_jobs, background, now, call>>

\* An assignment that writes the field in every record of the table.
ExecAssignAll ==
    /\ cur.block \in {"try", "except"}
    /\ CurStmt.op # "call"
    /\ calculation_jobs' =
          [id \in DOMAIN calculation_jobs |->
              Assign(calculation_jobs[id], CurStmt, cur.task, cur.exc)]
    /\ IF cur.pc < CurLast
       THEN /\ cur' = [cur EXCEPT !.pc = @ + 1]
            /\ UNCHANGED background
       ELSE Finish(cur.task, "returned", cur.exc)
    /\ response' = NoResponse
    /\ UNCHANGED <<now, call>>

\* An assignment to the job record, in the try block or in the except clause.
ExecAssign ==
    /\ cur.block \in {"try", "except"}
    /\ CurStmt.op # "call"
    /\ LET job_id == CurTask.job_id IN
       IF job_id \in DOMAIN calculation_jobs
       THEN /\ calculation_jobs' =
                 [calculation_jobs EXCEPT ![job_id] = Assign(@, CurStmt, cur.task, cur.exc)]
            /\ IF cur.pc < CurLast
               THEN /\ cur' = [cur EXCEPT !.pc = @ + 1]
                    /\ UNCHANGED background
               ELSE Finish(cur.task, "returned", cur.exc)
       ELSE /\ UNCHANGED calculation_jobs
            /\ IF cur.block = "try"
               THEN /\ cur' = [cur EXCEPT !.block = "except", !.pc = 1,
                                          !.exc = <<"KeyError">>]
                    /\ UNCHANGED background
               ELSE Finish(cur.task, "raised", <<"KeyError">>)
    /\ response' = NoResponse
    /\ UNCHANGED <<now, call>>

----------------------------------------------------------------------------
\* Status retrieval.

JobStatus(job_id, job) ==
    [endpoint |-> "job", code |-> 200, job_id |-> job_id, status |-> job.status,
     progress |-> job.progress, result |-> job.result, error |-> job.error]

NotFound(job_id) ==
    [NoResponse EXCEPT !.endpoint = "job", !.code = 404, !.job_id = job_id]

\* An id no submission returns.
UnknownJobId == <<"risk", 1, -1>>

PollIds == { background[n].job_id : n \in 1..Len(background) } \cup { UnknownJobId }

\* A status endpoint that answers for a missing id with a default record.
get_job_status_default(job_id) ==
    /\ cur = Idle
    /\ response' = IF job_id \notin DOMAIN calculation_jobs
                   THEN JobStatus(job_id, QueuedJob)
                   ELSE JobStatus(job_id, calculation_jobs[job_id])
    /\ UNCHANGED <<calculation_jobs, background, cur, now, call>>

\* A status endpoint that can run between two statements of an execution.
get_job_status_anytime(job_id) ==
    /\ response' = IF job_id \notin DOMAIN calculation_jobs
                   THEN NotFound(job_id)
                   ELSE JobStatus(job_id, calculation_jobs[job_id])
    /\ UNCHANGED <<calculation_jobs, background, cur, now, call>>

get_job_status(job_id) ==
    /\ cur = Idle
    /\ response' = IF job_id \notin DOMAIN calculation_jobs
                   THEN NotFound(job_id)
                   ELSE JobStatus(job_id, calculation_jobs[job_id])
    /\ UNCHANGED <<calculation_jobs, background, cur, now, call>>

----------------------------------------------------------------------------
\* The cleanup loop.  Its sleep runs on the event loop's monotonic clock, not
\* on the wall clock the job ids hold: a sweep may find any wall-clock time.

\* A sweep whose age test is not strict.
JobsToRemoveAtLeast(jobs, current_time) ==
    { job_id \in DOMAIN jobs :
        /\ jobs[job_id].status \in {"completed", "failed"}
        /\ current_time - JobTime(job_id) >= RetentionSeconds }

\* A sweep that passes over the failed jobs.
JobsToRemoveCompleted(jobs, current_time) ==
    { job_id \in DOMAIN jobs :
        /\ jobs[job_id].status = "completed"
        /\ current_time - JobTime(job_id) > RetentionSeconds }

JobsToRemove(jobs, current_time) ==
    { job_id \in DOMAIN jobs :
        /\ jobs[job_id].status \in {"completed", "failed"}
        /\ current_time - JobTime(job_id) > RetentionSeconds }

cleanup_old_jobs ==
    /\ cur = Idle
    /\ calculation_jobs' = Remove(calculation_jobs, JobsToRemove(calculation_jobs, now))
    /\ response' = NoResponse
    /\ UNCHANGED <<background, cur, now, call>>

\* Time passes.
Tick ==
    /\ cur = Idle
    /\ now < MaxTime
    /\ now' = now + TickSeconds
    /\ response' = NoResponse
    /\ UNCHANGED <<calculation_jobs, background, cur, call>>

----------------------------------------------------------------------------
Next ==
    \/ \E req \in PortfolioRequest : run_portfolio_analytics(req)
    \/ \E req \in RiskAnalysisRequest : run_risk_analysis(req)
    \/ \E req \in OptimizationRequest : run_optimization(req)
    \/ \E req \in FactorAnalysisRequest : run_factor_analysis(req)
    \/ \E n \in 1..MaxSubmissions : Begin(n)
    \/ ExecCall
    \/ ExecRaise
    \/ ExecAssign
    \/ \E job_id \in PollIds : get_job_status(job_id)
    \/ cleanup_old_jobs
    \/ Tick

Spec == Init /\ [][Next]_vars

\* The scheduler runs every background task that was added and every
\* statement of the running coroutine.
Exec == ExecCall \/ ExecRaise \/ ExecAssign

FairSpec ==
    /\ Spec
    /\ \A n \in 1..MaxSubmissions : WF_vars(Begin(n))
    /\ WF_vars(Exec)

----------------------------------------------------------------------------
\* Properties.

Jobs == DOMAIN calculation_jobs
Submitted(n) == n <= Len(background)
TasksFor(job_id) == { n \in 1..Len(background) : background[n].job_id = job_id }
\* The step is a submission.
Submits == Len(background') > Len(background)

\* C1: every change of a job's status is queued->running, running->completed
\* or running->failed.
C1_StatusTransitions ==
    [][\A id \in Jobs \cap DOMAIN calculation_jobs' :
          LET a == calculation_jobs[id].status
              b == calculation_jobs'[id].status
          IN a # b => <<a, b>> \in { <<"queued", "running">>,
                                     <<"running", "completed">>,
                                     <<"running", "failed">> }]_vars

\* C2: once an execution has left a job completed or failed, no step changes
\* the job's record; a step may only delete it.
C2_TerminalImmutable ==
    [][\A id \in Jobs :
          (/\ cur = Idle
           /\ calculation_jobs[id].status \in {"completed", "failed"}
           /\ id \in DOMAIN calculation_jobs')
          => calculation_jobs'[id] = calculation_jobs[id]]_vars

\* C3: no job record has both a result and an error.
C3_ResultXorError ==
    \A id \in Jobs :
        ~(calculation_jobs[id].result # None /\ calculation_jobs[id].error # None)

\* C4: progress stays within [0,1], never decreases after the submission, and
\* is 1.0 in every state a poll can see in which the status is completed.
C4_Progress ==
    [][/\ \A id \in DOMAIN calculation_jobs' :
            /\ calculation_jobs'[id].progress \in 0..10
            /\ (cur' = Idle /\ calculation_jobs'[id].status = "completed")
               => calculation_jobs'[id].progress = 10
       /\ ~Submits =>
            \A id \in Jobs \cap DOMAIN calculation_jobs' :
                calculation_jobs'[id].progress >= calculation_jobs[id].progress]_vars

\* C5: when a step inside the try block raised, the execution ends with the
\* job failed, its error the exception's text, and the coroutine returns
\* instead of raising.
C5_RaiseMeansFailed ==
    [][(/\ cur.block \in {"try", "except"}
        /\ cur' = Idle)
       => LET n == cur.task
              id == background[n].job_id
          IN /\ background'[n].state = "returned"
             /\ cur.exc # None =>
                  /\ id \in DOMAIN calculation_jobs'
                  /\ calculation_jobs'[id].status = "failed"
                  /\ calculation_jobs'[id].error = cur.exc
                  /\ background'[n].exc = cur.exc]_vars

C5_Witness ==
    \E n \in 1..Len(background) :
        /\ background[n].state = "returned"
        /\ background[n].exc # None
        /\ background[n].job_id \in Jobs
        /\ calculation_jobs[background[n].job_id].status = "failed"
        /\ calculation_jobs[background[n].job_id].error = background[n].exc

\* C6: under fair scheduling every job that is queued or running eventually
\* has status completed or failed, and no step removes a record that is queued
\* or running.
JobPending(n) ==
    /\ Submitted(n)
    /\ background[n].job_id \in Jobs
    /\ calculation_jobs[background[n].job_id].status \in {"queued", "running"}

JobSettled(n) ==
    /\ Submitted(n)
    /\ cur = Idle
    /\ background[n].job_id \in Jobs
    /\ calculation_jobs[background[n].job_id].status \in {"completed", "failed"}

C6_EventuallyTerminal ==
    /\ \A n \in 1..MaxSubmissions : JobPending(n) ~> JobSettled(n)
    /\ [][\A id \in Jobs :
             calculation_jobs[id].status \in {"queued", "running"}
             => id \in DOMAIN calculation_jobs']_vars

C6_Witness ==
    \E n \in 1..Len(background) : background[n].state = "returned" /\ JobSettled(n)

\* C7: a submission stores the fresh queued record and returns the id with
\* the task not yet started; while no execution for the id has run, a poll of
\* the id succeeds and reports queued or running.
C7_SubmitThenRetrievable ==
    [][/\ Submits =>
            LET t == background'[Len(background')] IN
            /\ t.job_id \in DOMAIN calculation_jobs'
            /\ calculation_jobs'[t.job_id] =
                 [status |-> "queued", progress |-> 0, result |-> <<>>, error |-> <<>>]
            /\ response'.endpoint = "submit" /\ response'.job_id = t.job_id
            /\ t.state = "scheduled"
            /\ cur' = Idle
       /\ (/\ response'.endpoint = "job"
           /\ TasksFor(response'.job_id) # {}
           /\ \A n \in TasksFor(response'.job_id) : background[n].state = "scheduled")
          => /\ response'.code = 200
             /\ response'.status \in {"queued", "running"}]_vars

C7_Witness ==
    /\ response.endpoint = "job"
    /\ response.code = 200
    /\ response.status = "queued"
    /\ \E n \in TasksFor(response.job_id) : background[n].state = "scheduled"

\* C8: status retrieval for an id that is not in the job table answers 404,
\* and status retrieval leaves the job table as it is.
C8_NotFound ==
    [][response'.endpoint = "job"
       => /\ calculation_jobs' = calculation_jobs
          /\ response'.job_id \notin Jobs => response'.code = 404
          /\ response'.job_id \in Jobs => response'.code = 200]_vars

\* A 404 for an id that a submission returned: the sweep purged it.
C8_Witness ==
    /\ response.endpoint = "job"
    /\ response.code = 404
    /\ TasksFor(response.job_id) # {}

\* C9: a record leaves the job table only if its status is completed or
\* failed and more than 3600 seconds have passed since the timestamp in its id.
C9_SweepOnlyOldTerminal ==
    [][\A id \in Jobs \ DOMAIN calculation_jobs' :
          /\ calculation_jobs[id].status \in {"completed", "failed"}
          /\ now - id[Len(id)] > 3600]_vars

\* A terminal job that is exactly 3600 seconds old is in the table, and
\* another submitted job has been swept.
C9_Witness ==
    /\ \E n \in 1..Len(background) : background[n].job_id \notin Jobs
    /\ \E id \in Jobs :
          /\ calculation_jobs[id].status \in {"completed", "failed"}
          /\ now - id[Len(id)] = 3600

\* C10: every submission receives an id that is not in the job table.
C10_UniqueJobId ==
    [][Submits => background'[Len(background')].job_id \notin Jobs]_vars

----------------------------------------------------------------------------
\* The objectives execute_optimization dispatches on (server.py:223-228).
KnownObjectives == {"max_sharpe", "min_volatility", "max_return"}

\* C11: an optimization job with a known objective ends completed, with
\* progress 1.0 and a result, and not failed.
C11_OptimizationCompletes ==
    [][(/\ cur # Idle
        /\ cur' = Idle
        /\ background[cur.task].request.kind = "optimization"
        /\ background[cur.task].request.name \in KnownObjectives)
       => LET id == background[cur.task].job_id
          IN /\ id \in DOMAIN calculation_jobs'
             /\ calculation_jobs'[id].status = "completed"
             /\ calculation_jobs'[id].progress = 10
             /\ calculation_jobs'[id].result # None]_vars

----------------------------------------------------------------------------
\* Arithmetic of the engine functions.  A Python float is kept as the exact
\* rational it stands for: <<n, d>> with d > 0, in lowest terms.

RECURSIVE GCD(_, _)
GCD(a, b) == IF b = 0 THEN a ELSE GCD(b, a % b)

Abs(n) == IF n < 0 THEN -n ELSE n

Rat(n, d) ==
    LET g == GCD(Abs(n), Abs(d))
        s == IF d < 0 THEN -1 ELSE 1
    IN <<(s * n) \div g, (s * d) \div g>>

RInt(n) == <<n, 1>>
Zero == RInt(0)
One == RInt(1)
RAdd(x, y) == Rat(x[1] * y[2] + y[1] * x[2], x[2] * y[2])
RSub(x, y) == Rat(x[1] * y[2] - y[1] * x[2], x[2] * y[2])
RMul(x, y) == Rat(x[1] * y[1], x[2] * y[2])
RDiv(x, y) == Rat(x[1] * y[2], x[2] * y[1])
RPos(x) == x[1] > 0
RLeq(x, y) == x[1] * y[2] <= y[1] * x[2]

\* The sum of f[k] over the keys k in S.
RECURSIVE RSum(_, _)
RSum(f, S) ==
    IF S = {} THEN Zero
    ELSE LET k == CHOOSE k \in S : TRUE IN RAdd(f[k], RSum(f, S \ {k}))

\* A function returned, or raised the exception with the given text.
Raise(text) == [exc |-> text]

----------------------------------------------------------------------------
\* risk/stress_testing.py: the three stress tests, called on portfolio_data =
\* {'positions': DataFrame(symbol, quantity), 'prices': DataFrame(date x symbol)}.

MaxPositions == 2
Symbols == {"SPY", "XYZ"}
Quantities == {-1000, 1000}
Prices == {50, 100}

Position == [symbol : Symbols, quantity : Quantities]
Positions == UNION { [1..n -> Position] : n \in 0..MaxPositions }

\* The prices frame: its columns with the price in the last row, or the
\* columns of a frame that has no row.
PriceFrames ==
    { [rows |-> 1, latest |-> f] : f \in UNION { [S -> Prices] : S \in SUBSET Symbols } }
    \cup { [rows |-> 0, latest |-> [s \in S |-> 0]] : S \in SUBSET Symbols }

PortfolioData == [positions : Positions, prices : PriceFrames]

\* if symbol in prices.columns
Priced(portfolio_data) ==
    SelectSeq(portfolio_data.positions,
              LAMBDA p : p.symbol \in DOMAIN portfolio_data.prices.latest)

\* prices[symbol].iloc[-1] on a column without rows
LatestPriceRaises(portfolio_data) ==
    portfolio_data.prices.rows = 0 /\ Len(Priced(portfolio_data)) > 0

IndexError == <<"single positional indexer is out-of-bounds">>

\* position_value = quantity * latest_price
position_value(portfolio_data, p) ==
    RInt(p.quantity * portfolio_data.prices.latest[p.symbol])

\* portfolio_value += position_value, over the rows of positions
RECURSIVE SumPositions(_, _, _)
SumPositions(portfolio_data, ps, i) ==
    IF i > Len(ps) THEN Zero
    ELSE RAdd(position_value(portfolio_data, ps[i]),
              SumPositions(portfolio_data, ps, i + 1))

portfolio_value(portfolio_data) ==
    SumPositions(portfolio_data, Priced(portfolio_data), 1)

\* position_values[symbol] = {...}: a dict keyed by symbol, so a later row of
\* the same symbol replaces the earlier one.
position_values(portfolio_data) ==
    LET ps == Priced(portfolio_data)
        last(s) == CHOOSE i \in 1..Len(ps) :
                      /\ ps[i].symbol = s
                      /\ \A j \in 1..Len(ps) : ps[j].symbol = s => j <= i
    IN [s \in { ps[i].symbol : i \in 1..Len(ps) } |->
          [quantity |-> RInt(ps[last(s)].quantity),
           current_price |-> RInt(portfolio_data.prices.latest[s]),
           current_value |-> position_value(portfolio_data, ps[last(s)])]]

\* portfolio_change / portfolio_value if portfolio_value > 0 else 0
portfolio_pct_change(portfolio_change, value) ==
    IF RPos(value) THEN RDiv(portfolio_change, value) ELSE Zero

StressResult(scenario_type, value, stressed) ==
    [exc |-> None,
     scenario_type |-> scenario_type,
     current_portfolio_value |-> value,
     stressed_portfolio_value |-> stressed,
     absolute_change |-> RSub(stressed, value),
     percentage_change |-> portfolio_pct_change(RSub(stressed, value), value)]

\* asset_returns of the three scenarios
scenarios ==
    [financial_crisis_2008 |->
        [SPY |-> Rat(-30, 100), QQQ |-> Rat(-35, 100), EEM |-> Rat(-40, 100),
         TLT |-> Rat(10, 100), GLD |-> Rat(5, 100), _default |-> Rat(-25, 100)],
     covid_crash_2020 |->
        [SPY |-> Rat(-34, 100), QQQ |-> Rat(-28, 100), EEM |-> Rat(-33, 100),
         TLT |-> Rat(15, 100), GLD |-> Rat(-5, 100), _default |-> Rat(-30, 100)],
     rate_shock_2022 |->
        [SPY |-> Rat(-20, 100), QQQ |-> Rat(-30, 100), TLT |-> Rat(-25, 100),
         HYG |-> Rat(-15, 100), SHY |-> Rat(-5, 100), _default |-> Rat(-15, 100)]]

\* The names of the catalogue, a name outside it, and the missing name:
\* kwargs.get('scenario_name') is None without the key, written "None" as in
\* the message of line 93.
ScenarioNames == DOMAIN scenarios \cup {"dotcom_2000", "None"}

historical_scenario_test(portfolio_data, scenario_name) ==
    IF scenario_name \notin DOMAIN scenarios
    THEN Raise(<<"Unknown historical scenario: ", scenario_name>>)
    ELSE IF LatestPriceRaises(portfolio_data) THEN Raise(IndexError)
    ELSE
      LET asset_returns == scenarios[scenario_name]
          pv == position_values(portfolio_data)
          shock_return(s) == IF s \in DOMAIN asset_returns
                             THEN asset_returns[s] ELSE asset_returns["_default"]
          \* stressed_value = quantity * (current_price * (1 + shock_return))
          stressed_value == [s \in DOMAIN pv |->
              RMul(pv[s].quantity,
                   RMul(pv[s].current_price, RAdd(One, shock_return(s))))]
          \* stressed_values[symbol] = {...}
          stressed_values == [s \in DOMAIN pv |->
              [current_value |-> pv[s].current_value,
               shock_return |-> shock_return(s),
               stressed_value |-> stressed_value[s],
               value_change |-> RSub(stressed_value[s], pv[s].current_value),
               pct_change |-> shock_return(s)]]
      IN StressResult("historical", portfolio_value(portfolio_data),
                      RSum(stressed_value, DOMAIN pv))
         @@ [position_impacts |-> stressed_values]

factor_betas ==
    [Market |-> Rat(105, 100), Size |-> Rat(20, 100), Value |-> Rat(-15, 100),
     Momentum |-> Rat(10, 100), Quality |-> Rat(25, 100), Volatility |-> Rat(-30, 100)]

\* A factor-shock test that prices a factor outside the table with beta 1.
total_factor_impact_any(factor_shocks) ==
    RSum([f \in DOMAIN factor_shocks |->
            IF f \in DOMAIN factor_betas
            THEN RMul(factor_betas[f], factor_shocks[f]) ELSE factor_shocks[f]],
         DOMAIN factor_shocks)

\* for factor, shock in factor_shocks.items(): if factor in factor_betas:
\*     total_factor_impact += factor_betas[factor] * shock
total_factor_impact(factor_shocks) ==
    LET known == DOMAIN factor_shocks \cap DOMAIN factor_betas
    IN RSum([f \in known |-> RMul(factor_betas[f], factor_shocks[f])], known)

factor_shock_test(portfolio_data, factor_shocks) ==
    IF LatestPriceRaises(portfolio_data) THEN Raise(IndexError)
    ELSE
      LET value == portfolio_value(portfolio_data)
          \* stressed_value = portfolio_value * (1 + total_factor_impact)
          stressed == RMul(value, RAdd(One, total_factor_impact(factor_shocks)))
      IN StressResult("factor_shock", value, stressed)

custom_shock_test(portfolio_data, asset_shocks) ==
    IF LatestPriceRaises(portfolio_data) THEN Raise(IndexError)
    ELSE
      LET pv == position_values(portfolio_data)
          \* asset_shocks.get(symbol, 0)
          shock(s) == IF s \in DOMAIN asset_shocks THEN asset_shocks[s] ELSE Zero
          stressed_value == [s \in DOMAIN pv |->
              RMul(pv[s].current_value, RAdd(One, shock(s)))]
      IN StressResult("custom_shock", portfolio_value(portfolio_data),
                      RSum(stressed_value, DOMAIN pv))

AssetShockValues == { Zero, Rat(-1, 10) }
AssetShocks == UNION { [S -> AssetShockValues] : S \in SUBSET Symbols }

Factors == {"Market", "Value", "Inflation"}
FactorShockValues == { Rat(-1, 10), Rat(1, 5) }
FactorShocks == UNION { [S -> FactorShockValues] : S \in SUBSET Factors }

\* The job layer is idle while an engine function is called directly.
JobsUnchanged == UNCHANGED <<calculation_jobs, background, cur, now, response>>

\* A call that has its arguments and has not run yet.
Pending(fn, portfolio_data, arg) ==
    [fn |-> fn, portfolio_data |-> portfolio_data, arg |-> arg,
     done |-> FALSE, ret |-> Raise(None)]

StressCalls ==
    { Pending("historical_scenario_test", portfolio_data, scenario_name) :
        portfolio_data \in PortfolioData, scenario_name \in ScenarioNames }
    \cup { Pending("factor_shock_test", portfolio_data, factor_shocks) :
        portfolio_data \in PortfolioData, factor_shocks \in FactorShocks }
    \cup { Pending("custom_shock_test", portfolio_data, asset_shocks) :
        portfolio_data \in PortfolioData, asset_shocks \in AssetShocks }

StressInit ==
    /\ calculation_jobs = [id \in {} |-> QueuedJob]
    /\ background = <<>>
    /\ cur = Idle
    /\ now = 0
    /\ response = NoResponse
    /\ call \in StressCalls

Return(ret) == call' = [call EXCEPT !.done = TRUE, !.ret = ret]

CallHistoricalScenarioTest ==
    /\ call.fn = "historical_scenario_test" /\ ~call.done
    /\ Return(historical_scenario_test(call.portfolio_data, call.arg))
    /\ JobsUnchanged

CallFactorShockTest ==
    /\ call.fn = "factor_shock_test" /\ ~call.done
    /\ Return(factor_shock_test(call.portfolio_data, call.arg))
    /\ JobsUnchanged

CallCustomShockTest ==
    /\ call.fn = "custom_shock_test" /\ ~call.done
    /\ Return(custom_shock_test(call.portfolio_data, call.arg))
    /\ JobsUnchanged

StressNext ==
    \/ CallHistoricalScenarioTest
    \/ CallFactorShockTest
    \/ CallCustomShockTest

StressSpec == StressInit /\ [][StressNext]_vars

----------------------------------------------------------------------------
\* Properties of the stress tests.

StressReturned == call.fn \in {"historical_scenario_test", "factor_shock_test",
                               "custom_shock_test"}
                  /\ call.done /\ call.ret.exc = None

\* Every position's shock is 0: no held symbol has a non-zero entry.
AllShocksZero(portfolio_data, asset_shocks) ==
    \A i \in 1..Len(portfolio_data.positions) :
        LET s == portfolio_data.positions[i].symbol
        IN s \in DOMAIN asset_shocks => asset_shocks[s] = Zero

\* C12: a custom shock test in which every position's shock is 0 returns a
\* stressed value equal to the current value, absolute change 0 and
\* percentage change 0, for every portfolio.
C12_ZeroShockUnchanged ==
    (/\ StressReturned
     /\ call.fn = "custom_shock_test"
     /\ AllShocksZero(call.portfolio_data, call.arg))
    => /\ call.ret.stressed_portfolio_value = call.ret.current_portfolio_value
       /\ call.ret.absolute_change = Zero
       /\ call.ret.percentage_change = Zero

\* The sum of beta[f] * shock[f] over the shocked factors of the beta table.
BetaShockSum(factor_shocks) ==
    LET fs == { f \in DOMAIN factor_shocks : f \in DOMAIN factor_betas }
    IN RSum([f \in fs |-> RMul(factor_betas[f], factor_shocks[f])], fs)

\* C13: for a portfolio of positive value, factor_shock_test reports as
\* percentage change the sum of beta * shock over the shocked factors that
\* are in the beta table, and as stressed value current * (1 + that sum); a
\* factor outside the table causes no error; Market -0.10 on 100,000 gives
\* -0.105 and 89,500.
C13_FactorShock ==
    (call.fn = "factor_shock_test" /\ call.done)
    => /\ call.portfolio_data.prices.rows = 1 => call.ret.exc = None
       /\ (call.ret.exc = None /\ RPos(call.ret.current_portfolio_value))
          => /\ call.ret.percentage_change = BetaShockSum(call.arg)
             /\ call.ret.stressed_portfolio_value =
                  RMul(call.ret.current_portfolio_value,
                       RAdd(One, BetaShockSum(call.arg)))
       /\ (/\ call.ret.exc = None
           /\ call.ret.current_portfolio_value = RInt(100000)
           /\ DOMAIN call.arg = {"Market"}
           /\ call.arg["Market"] = Rat(-10, 100))
          => /\ call.ret.percentage_change = Rat(-105, 1000)
             /\ call.ret.stressed_portfolio_value = RInt(89500)

\* Market is shocked by -0.10 together with a factor the table does not have,
\* on a portfolio worth 100,000.
C13_Witness ==
    /\ call.fn = "factor_shock_test" /\ call.done /\ call.ret.exc = None
    /\ DOMAIN call.arg = {"Market", "Inflation"}
    /\ call.arg["Market"] = Rat(-10, 100)
    /\ call.ret.current_portfolio_value = RInt(100000)
    /\ call.ret.stressed_portfolio_value = RInt(89500)

\* C14: in all three stress tests the percentage change is (stressed -
\* current) / current whenever the current value is not 0, negative values
\* included, and 0 when the current value is 0.
C14_PercentageChange ==
    StressReturned
    => LET v == call.ret.current_portfolio_value
           s == call.ret.stressed_portfolio_value
       IN /\ v # Zero => call.ret.percentage_change = RDiv(RSub(s, v), v)
          /\ v = Zero => call.ret.percentage_change = Zero

----------------------------------------------------------------------------
\* risk/risk_metrics.py: calculate_historical_var on the portfolio_return
\* column of returns_df and a confidence level.  The diagnostic fields of the
\* result (mean, volatility, skewness, kurtosis) are left out.

MaxReturns == 5
ReturnValues == { Rat(-5, 100), Rat(-2, 100), Zero, Rat(1, 100), Rat(3, 100) }
ReturnSamples == UNION { [1..n -> ReturnValues] : n \in 1..MaxReturns }
ConfidenceLevels == { Rat(1, 2), Rat(4, 5), Rat(19, 20) }

RECURSIVE Insert(_, _)
Insert(r, s) ==
    IF s = <<>> THEN <<r>>
    ELSE IF RLeq(r, Head(s)) THEN <<r>> \o s
    ELSE <<Head(s)>> \o Insert(r, Tail(s))

\* Series.sort_values(): ascending
RECURSIVE sort_values(_)
sort_values(s) == IF s = <<>> THEN <<>> ELSE Insert(Head(s), sort_values(Tail(s)))

\* Series.quantile(q), whose default interpolation is linear: the value at
\* the fractional position (n - 1) * q between the two neighbouring order
\* statistics.
quantile(sorted, q) ==
    LET h == RMul(RInt(Len(sorted) - 1), q)
        lo == h[1] \div h[2]
        frac == RSub(h, RInt(lo))
    IN IF frac = Zero THEN sorted[lo + 1]
       ELSE RAdd(sorted[lo + 1], RMul(frac, RSub(sorted[lo + 2], sorted[lo + 1])))

\* A tail that leaves out the returns equal to the percentile value.
TailBelow(sorted, var_value) ==
    SelectSeq(sorted, LAMBDA r : RLeq(r, var_value) /\ r # var_value)

\* sorted_returns[sorted_returns <= var_value]
TailAtOrBelow(sorted, var_value) ==
    SelectSeq(sorted, LAMBDA r : RLeq(r, var_value))

RECURSIVE SeqSum(_)
SeqSum(s) == IF s = <<>> THEN Zero ELSE RAdd(Head(s), SeqSum(Tail(s)))

\* Series.mean(): NaN (here None) for an empty series
mean(s) == IF s = <<>> THEN None ELSE RDiv(SeqSum(s), RInt(Len(s)))

RNeg(x) == <<-x[1], x[2]>>

calculate_historical_var(returns_df, confidence_level) ==
    LET sorted_returns == sort_values(returns_df)
        var_percentile == RSub(One, confidence_level)
        var_value == quantile(sorted_returns, var_percentile)
        cvar_value == mean(TailAtOrBelow(sorted_returns, var_value))
    IN [exc |-> None,
        var |-> RNeg(var_value),
        \* float(-cvar_value) if not pd.isna(cvar_value) else None
        cvar |-> IF cvar_value # None THEN RNeg(cvar_value) ELSE None,
        confidence_level |-> confidence_level,
        method |-> "historical",
        observations |-> Len(returns_df),
        var_percentile |-> var_percentile]

VarCalls ==
    { [fn |-> "calculate_historical_var", returns_df |-> returns_df,
       confidence_level |-> confidence_level, done |-> FALSE, ret |-> Raise(None)] :
        returns_df \in ReturnSamples, confidence_level \in ConfidenceLevels }

VarInit ==
    /\ calculation_jobs = [id \in {} |-> QueuedJob]
    /\ background = <<>>
    /\ cur = Idle
    /\ now = 0
    /\ response = NoResponse
    /\ call \in VarCalls

CallCalculateHistoricalVar ==
    /\ call.fn = "calculate_historical_var" /\ ~call.done
    /\ Return(calculate_historical_var(call.returns_df, call.confidence_level))
    /\ JobsUnchanged

VarNext == CallCalculateHistoricalVar

VarSpec == VarInit /\ [][VarNext]_vars

----------------------------------------------------------------------------
\* Properties of historical VaR.

VarReturned == call.fn = "calculate_historical_var" /\ call.done

\* C15: for every confidence level and every non-empty return sample,
\* calculate_historical_var returns var >= 0.
C15_VarNonNegative ==
    VarReturned => RLeq(Zero, call.ret.var)

ScenarioSample == << Rat(-2, 100), Rat(1, 100), Rat(-5, 100), Rat(3, 100), Zero >>

\* C17: historical VaR of [-0.02, 0.01, -0.05, 0.03, 0.00] at confidence 0.80
\* is 0.05 up to 0.005: the percentile return is the lowest return -0.05.
C17_ScenarioVar ==
    (/\ VarReturned
     /\ call.returns_df = ScenarioSample
     /\ call.confidence_level = Rat(80, 100))
    => /\ RLeq(Rat(45, 1000), call.ret.var)
       /\ RLeq(call.ret.var, Rat(55, 1000))

----------------------------------------------------------------------------
\* factors/exposures.py: calculate_exposures on the dates of the portfolio
\* returns and on factor_returns (its dates and its columns).  The numbers
\* the regression reports are left out; the result keeps the factor names.

MaxRows == 21
MinObservations == 20

\* The names bound at module level in exposures.py besides its own two
\* functions: the file has no import statement.
ExposuresGlobals == {}

NameError(name) == <<"name '", name, "' is not defined">>
InsufficientData ==
    <<"Insufficient data for factor analysis (need at least 20 observations)">>
\* aligned_data[[...]] with a column that is not in the frame
KeyError(columns) == <<"not in index", columns>>

ThreeFactorColumns == <<"mkt_rf", "smb", "hml">>
FiveFactorColumns == <<"mkt_rf", "smb", "hml", "rmw", "cma">>

\* The columns of factor_returns: what get_factor_returns builds for
\* fama_french_3 and fama_french_5, and frames of other factors.
FactorColumns ==
    { ThreeFactorColumns, FiveFactorColumns, <<"mom">>, <<"mkt_rf", "mom">>,
      <<"rmw", "cma">> }

Range(s) == { s[i] : i \in 1..Len(s) }

\* The date index of a frame with n rows.
Dates(n) == 1..n

\* pd.merge(portfolio_returns, factor_returns, left_index=True,
\*          right_index=True, how='inner'): the rows of the common dates
aligned_data(portfolio_dates, factor_returns) ==
    [index |-> portfolio_dates \cap factor_returns.index,
     columns |-> <<"portfolio_return">> \o factor_returns.columns]

\* Lines 32-43: the factor set, or the KeyError of selecting a missing column.
factor_set(aligned) ==
    LET cols == Range(aligned.columns) IN
    IF "mkt_rf" \in cols /\ "smb" \in cols /\ "hml" \in cols
    THEN [exc |-> None, factor_names |-> <<"Market", "Size", "Value">>]
    ELSE IF "rmw" \in cols /\ "cma" \in cols
    THEN IF Range(FiveFactorColumns) \subseteq cols
         THEN [exc |-> None,
               factor_names |-> <<"Market", "Size", "Value", "Profitability", "Investment">>]
         ELSE Raise(KeyError(FiveFactorColumns))
    ELSE [exc |-> None,
          factor_names |-> SelectSeq(aligned.columns, LAMBDA c : c # "portfolio_return")]

\* importable: whether the package name calculation_engine resolves where
\* the server runs (server.py itself imports its modules without that prefix).
calculate_exposures(importable, portfolio_dates, factor_returns) ==
    IF ~importable THEN Raise(<<"No module named 'calculation_engine'">>)
    ELSE IF "pd" \notin ExposuresGlobals THEN Raise(NameError("pd"))
    ELSE LET aligned == aligned_data(portfolio_dates, factor_returns)
             selected == factor_set(aligned)
         IN IF Cardinality(aligned.index) < MinObservations THEN Raise(InsufficientData)
            ELSE IF selected.exc # None THEN selected
            ELSE IF "sm" \notin ExposuresGlobals THEN Raise(NameError("sm"))
            ELSE [exc |-> None,
                  observations |-> Cardinality(aligned.index),
                  factors |-> selected.factor_names]

ExposureCalls ==
    { [fn |-> "calculate_exposures", importable |-> importable,
       portfolio_dates |-> Dates(p),
       factor_returns |-> [index |-> Dates(f), columns |-> columns],
       done |-> FALSE, ret |-> Raise(None)] :
        importable \in BOOLEAN, p \in 0..MaxRows, f \in {0, MaxRows},
        columns \in FactorColumns }

ExposureInit ==
    /\ calculation_jobs = [id \in {} |-> QueuedJob]
    /\ background = <<>>
    /\ cur = Idle
    /\ now = 0
    /\ response = NoResponse
    /\ call \in ExposureCalls

CallCalculateExposures ==
    /\ call.fn = "calculate_exposures" /\ ~call.done
    /\ Return(calculate_exposures(call.importable, call.portfolio_dates,
                                  call.factor_returns))
    /\ JobsUnchanged

ExposureNext == CallCalculateExposures

ExposureSpec == ExposureInit /\ [][ExposureNext]_vars

----------------------------------------------------------------------------
\* Properties of calculate_exposures.

ExposuresCalled == call.fn = "calculate_exposures" /\ call.done

\* The number of rows of the inner join.
JoinedRows == Cardinality(call.portfolio_dates \cap call.factor_returns.index)

\* C18: calculate_exposures fails with the insufficient-data error whenever
\* the inner join has fewer than 20 rows, and does not when it has 20 or more.
C18_InsufficientData ==
    ExposuresCalled
    => /\ JoinedRows < 20 =>
            call.ret.exc = <<"Insufficient data for factor analysis (need at least 20 observations)">>
       /\ JoinedRows >= 20 =>
            call.ret.exc # <<"Insufficient data for factor analysis (need at least 20 observations)">>

\* C19: on 20 or more joined rows, with the market, size and value columns
\* and also profitability and investment the result reports the five
\* exposures Market, Size, Value, Profitability, Investment; with market, size
\* and value only it reports the three; otherwise one per factor column.
C19_FactorSetSelection ==
    (ExposuresCalled /\ JoinedRows >= 20)
    => LET cols == Range(call.factor_returns.columns) IN
       /\ call.ret.exc = None
       /\ call.ret.factors =
            IF {"mkt_rf", "smb", "hml", "rmw", "cma"} \subseteq cols
            THEN <<"Market", "Size", "Value", "Profitability", "Investment">>
            ELSE IF {"mkt_rf", "smb", "hml"} \subseteq cols
            THEN <<"Market", "Size", "Value">>
            ELSE call.factor_returns.columns

----------------------------------------------------------------------------
\* The names the dispatches know.
KnownCalculationTypes == {"var", "stress_test"}
KnownFactorModels == {"fama_french_3", "fama_french_5"}

UnknownName(req) ==
    \/ req.kind = "risk" /\ req.name \notin KnownCalculationTypes
    \/ req.kind = "optimization" /\ req.name \notin KnownObjectives
    \/ req.kind = "factor" /\ req.name \notin KnownFactorModels

\* C20: a job whose request names an unknown calculation type, factor model
\* or optimization objective ends failed, with an error message that holds
\* the unknown name.
C20_UnknownNameReported ==
    [][(/\ cur # Idle
        /\ cur' = Idle
        /\ UnknownName(background[cur.task].request))
       => LET id == background[cur.task].job_id
              name == background[cur.task].request.name
          IN /\ id \in DOMAIN calculation_jobs'
             /\ calculation_jobs'[id].status = "failed"
             /\ \E i \in 1..Len(calculation_jobs'[id].error) :
                   calculation_jobs'[id].error[i] = name]_vars

-----------------------------------------------------------------------------
\* optimization/efficient_frontier.py: the three objectives. Each builds an
\* EfficientFrontier, asks the solver for weights, cleans them and reports the
\* cleaned weights above 0.0001. The solver (pypfopt, with its default
\* long-only bounds (0, 1)) is not part of the repository: the weights it
\* returns are an input of the call, any long-only vector that sums to 1.
\* Weights are counted in millionths, so that 1.0 is PerUnit.

PerUnit == 10 ^ 6

Universe == { "AAA", "BBB", "CCC" }

WeightValues ==
    { 0, 50, 100, 150, 333333, 333334, 499950, 500000, 999850, 999900, 999950,
      PerUnit }

RECURSIVE SumOver(_, _)
SumOver(f, keys) ==
    IF keys = {} THEN 0
    ELSE LET k == CHOOSE x \in keys : TRUE
         IN  f[k] + SumOver(f, keys \ {k})

\* What ef.max_sharpe(), ef.min_volatility() and ef.efficient_risk() can
\* return for the universe.
SolverWeights ==
    { [k \in Universe |->
          IF k = "AAA" THEN a ELSE IF k = "BBB" THEN b ELSE PerUnit - a - b] :
        <<a, b>> \in { p \in WeightValues \X WeightValues : p[1] + p[2] <= PerUnit } }

\* ef.clean_weights() with the library's defaults cutoff=1e-4, rounding=5:
\* a weight whose absolute value is below the cutoff becomes 0 and every
\* weight is rounded to five decimals (numpy rounds halves to even).
CleanCutoff == PerUnit \div 10 ^ 4
CleanStep == PerUnit \div 10 ^ 5

round(v) ==
    LET q == v \div CleanStep
        r == v % CleanStep
    IN  IF 2 * r < CleanStep THEN q * CleanStep
        ELSE IF 2 * r > CleanStep THEN (q + 1) * CleanStep
        ELSE IF q % 2 = 0 THEN q * CleanStep
        ELSE (q + 1) * CleanStep

clean_weights(weights) ==
    [k \in DOMAIN weights |->
        round(IF Abs(weights[k]) < CleanCutoff THEN 0 ELSE weights[k])]

\* The 0.0001 of the result's 'weights' comprehension.
ReportThreshold == PerUnit \div 10 ^ 4

\* The result dictionary. expected_return, volatility and sharpe_ratio are the
\* library's portfolio_performance figures and are left out.
OptimizationResult(weights, optimization_type) ==
    LET cleaned_weights == clean_weights(weights)
        kept == { k \in DOMAIN cleaned_weights :
                    cleaned_weights[k] > ReportThreshold }
    IN  [exc               |-> None,
         weights           |-> [k \in kept |-> cleaned_weights[k]],
         portfolio_value   |-> PerUnit,
         weights_sum       |-> SumOver(cleaned_weights, DOMAIN cleaned_weights),
         optimization_type |-> optimization_type]

\* Called without a constraint set (the test of line 43 is false).
maximize_sharpe_ratio(weights) == OptimizationResult(weights, "max_sharpe")
minimize_volatility(weights) == OptimizationResult(weights, "min_volatility")
maximize_return(weights) == OptimizationResult(weights, "max_return")

Objectives == { "maximize_sharpe_ratio", "minimize_volatility", "maximize_return" }

-----------------------------------------------------------------------------
\* optimization/constraints.py and apply_constraints: the position
\* constraints of a request. A request lists securities, each with a symbol
\* and an optional min and max; the limits of a security are a dictionary with
\* the keys it gave.

MaxSecurities == 2

LimitValues == { PerUnit \div 10, 3 * (PerUnit \div 10) }
LimitKeys == { "min", "max" }
Limits == UNION { [keys -> LimitValues] : keys \in SUBSET LimitKeys }

Security == [symbol : Universe, limits : Limits]
Securities == UNION { [1..n -> Security] : n \in 0..MaxSecurities }

\* constraints_dict = {'positions': {'securities': securities}}.
\* security_limits is a dictionary: a symbol seen again keeps its place and
\* takes the new limits, a security without limits is left out.
RECURSIVE security_limits(_)
security_limits(securities) ==
    IF securities = <<>> THEN <<>>
    ELSE LET before == security_limits(SubSeq(securities, 1, Len(securities) - 1))
             security == securities[Len(securities)]
         IN  IF DOMAIN security.limits = {} THEN before
             ELSE IF \E i \in 1..Len(before) : before[i].symbol = security.symbol
             THEN [i \in 1..Len(before) |->
                      IF before[i].symbol = security.symbol
                      THEN security ELSE before[i]]
             ELSE Append(before, security)

build_constraint_set(securities) ==
    [position_constraints |->
        [min_weight |-> 0, max_weight |-> PerUnit,
         security_limits |-> security_limits(securities)]]

\* The lambdas of lines 189 and 191. sym is a default argument and holds the
\* symbol of the iteration that made the lambda; limits is a free variable,
\* the loop variable of apply_constraints, read when the lambda is called.
Lambda(iteration, sym, key) ==
    [iteration |-> iteration, sym |-> sym, key |-> key]

RECURSIVE Lambdas(_, _)
Lambdas(items, i) ==
    IF i > Len(items) THEN <<>>
    ELSE (IF "min" \in DOMAIN items[i].limits
          THEN <<Lambda(i, items[i].symbol, "min")>> ELSE <<>>)
         \o (IF "max" \in DOMAIN items[i].limits
             THEN <<Lambda(i, items[i].symbol, "max")>> ELSE <<>>)
         \o Lambdas(items, i + 1)

\* The value of the loop variable limits when a lambda is called: the limits
\* of its own iteration if the optimizer calls it inside add_constraint, the
\* limits of the last iteration if the optimizer calls it when it solves.
LoopLimits(items, lambda, evaluated) ==
    IF evaluated = "add_constraint" THEN items[lambda.iteration].limits
    ELSE items[Len(items)].limits

Evaluations == { "add_constraint", "solve" }

\* A constraint as the optimizer sees it: weight[sym] >= bound for min,
\* weight[sym] <= bound for max; sym "" is every weight (lines 183-184).
Constraint(sym, key, bound) == [sym |-> sym, key |-> key, bound |-> bound]

\* Without sector constraints and target return. The result is the list of
\* constraints the optimizer holds; a lambda whose key is missing from the
\* limits it reads raises KeyError.
apply_constraints(constraint_set, evaluated) ==
    LET position_constraints == constraint_set.position_constraints
        items == position_constraints.security_limits
        lambdas == Lambdas(items, 1)
        missing == { n \in 1..Len(lambdas) :
                       lambdas[n].key \notin DOMAIN LoopLimits(items, lambdas[n], evaluated) }
        first == CHOOSE n \in missing : \A m \in missing : n <= m
    IN  IF missing # {}
        THEN Raise(<<"KeyError", lambdas[first].key>>)
        ELSE [exc |-> None,
              constraints |->
                  << Constraint("", "min", position_constraints.min_weight),
                     Constraint("", "max", position_constraints.max_weight) >>
                  \o [n \in 1..Len(lambdas) |->
                        Constraint(lambdas[n].sym, lambdas[n].key,
                                   LoopLimits(items, lambdas[n], evaluated)[lambdas[n].key])]]

-----------------------------------------------------------------------------
\* The calls of the optimization module.

OptimizationCalls ==
    { [fn |-> fn, weights |-> weights, securities |-> <<>>,
       evaluated |-> "solve", done |-> FALSE, ret |-> Raise(None)] :
        fn \in Objectives, weights \in SolverWeights }
    \cup
    { [fn |-> "apply_constraints", weights |-> <<>>, securities |-> securities,
       evaluated |-> evaluated, done |-> FALSE, ret |-> Raise(None)] :
        securities \in Securities, evaluated \in Evaluations }

OptimizationInit ==
    /\ calculation_jobs = [id \in {} |-> QueuedJob]
    /\ background = <<>>
    /\ cur = Idle
    /\ now = 0
    /\ response = NoResponse
    /\ call \in OptimizationCalls

CallMaximizeSharpeRatio ==
    /\ call.fn = "maximize_sharpe_ratio" /\ ~call.done
    /\ Return(maximize_sharpe_ratio(call.weights))
    /\ JobsUnchanged

CallMinimizeVolatility ==
    /\ call.fn = "minimize_volatility" /\ ~call.done
    /\ Return(minimize_volatility(call.weights))
    /\ JobsUnchanged

CallMaximizeReturn ==
    /\ call.fn = "maximize_return" /\ ~call.done
    /\ Return(maximize_return(call.weights))
    /\ JobsUnchanged

CallApplyConstraints ==
    /\ call.fn = "apply_constraints" /\ ~call.done
    /\ Return(apply_constraints(build_constraint_set(call.securities), call.evaluated))
    /\ JobsUnchanged

OptimizationNext ==
    \/ CallMaximizeSharpeRatio
    \/ CallMinimizeVolatility
    \/ CallMaximizeReturn
    \/ CallApplyConstraints

OptimizationSpec == OptimizationInit /\ [][OptimizationNext]_vars

-----------------------------------------------------------------------------
\* Properties of the optimization results.

OptimizationReturned == call.fn \in Objectives /\ call.done

\* C21: for every result of the three objectives, the reported weights (the
\* cleaned weights above 1e-4) sum to 1.0 within 1e-6 and every reported
\* weight is >= 0.
C21_WeightsSumToOne ==
    OptimizationReturned =>
        LET weights == call.ret.weights
            total == SumOver(weights, DOMAIN weights)
        IN  /\ Abs(total - PerUnit) <= PerUnit \div 10 ^ 6
            /\ \A k \in DOMAIN weights : weights[k] >= 0


\* What apply_constraints hands to the optimizer for one request.
ConstraintsApplied == call.fn = "apply_constraints" /\ call.done

-----------------------------------------------------------------------------
\* risk/risk_metrics.py: calculate_monte_carlo_var. numpy's global generator
\* is shared by the whole process: its state is random_state, every draw
\* moves it on, np.random.seed(value) sets it from the value alone. The
\* generator is modelled by a small congruential generator with the same
\* three operations.

RandomPeriod == 8
RandomStates == 0..(RandomPeriod - 1)
SeedValue == 42

\* A seed that leaves the generator where it was.
seed_keep(random_state, value) == random_state

\* np.random.seed(value)
seed(random_state, value) == value % RandomPeriod

\* The state after one draw and the standard normal variate the draw gives.
advance(random_state) == (5 * random_state + 3) % RandomPeriod
standard_normal(random_state) == Rat((random_state % 7) - 3, 2)

\* np.random.normal(loc, scale, size): the values and the state afterwards.
RECURSIVE normal(_, _, _, _)
normal(random_state, loc, scale, size) ==
    IF size = 0 THEN [values |-> <<>>, random_state |-> random_state]
    ELSE LET rest == normal(advance(random_state), loc, scale, size - 1)
         IN  [values |-> <<RAdd(loc, RMul(scale, standard_normal(random_state)))>>
                            \o rest.values,
              random_state |-> rest.random_state]

\* Series.std(): the sample standard deviation (ddof = 1). The samples of the
\* model have a variance that is the square of a rational.
ISqrt(k) == CHOOSE s \in 0..k : s * s = k
RSqrt(x) == Rat(ISqrt(x[1]), ISqrt(x[2]))

std(s) ==
    LET m == mean(s)
        squares == [i \in 1..Len(s) |-> RMul(RSub(s[i], m), RSub(s[i], m))]
    IN  RSqrt(RDiv(SeqSum(squares), RInt(Len(s) - 1)))

MaxSimulations == 3
Simulations == 1..MaxSimulations

\* returns c - x, c, c + x: mean c, standard deviation x
MonteCarloSamples ==
    { << RSub(c, x), c, RAdd(c, x) >> :
        c \in { Zero, Rat(1, 100) }, x \in { Zero, Rat(1, 100), Rat(2, 100) } }

\* The result and the generator state the call leaves behind.
calculate_monte_carlo_var(random_state, returns_df, confidence_level, num_simulations) ==
    LET mean_return == mean(returns_df)
        std_return == std(returns_df)
        drawn == normal(seed(random_state, SeedValue), mean_return, std_return,
                        num_simulations)
        simulated_returns == drawn.values
        var_percentile == RSub(One, confidence_level)
        \* np.percentile interpolates linearly, as Series.quantile does
        percentile == quantile(sort_values(simulated_returns), var_percentile)
        var_value == RNeg(percentile)
        cvar_value == RNeg(mean(TailAtOrBelow(simulated_returns, RNeg(var_value))))
    IN  [ret |-> [exc |-> None,
                  var |-> var_value,
                  cvar |-> cvar_value,
                  confidence_level |-> confidence_level,
                  method |-> "monte_carlo",
                  observations |-> Len(returns_df),
                  simulations |-> num_simulations,
                  var_percentile |-> var_percentile,
                  mean_return |-> mean_return,
                  volatility |-> std_return],
         random_state |-> drawn.random_state]

\* The process: calls of calculate_monte_carlo_var with the same arguments,
\* and between them the draws and seeds of other jobs. entered keeps the
\* generator state each call found, results what each call returned.
MaxCalls == 2

MonteCarloCalls ==
    { [fn |-> "calculate_monte_carlo_var", returns_df |-> returns_df,
       confidence_level |-> confidence_level, num_simulations |-> num_simulations,
       random_state |-> random_state, entered |-> <<>>, results |-> <<>>] :
        returns_df \in MonteCarloSamples, confidence_level \in ConfidenceLevels,
        num_simulations \in Simulations, random_state \in RandomStates }

MonteCarloInit ==
    /\ calculation_jobs = [id \in {} |-> QueuedJob]
    /\ background = <<>>
    /\ cur = Idle
    /\ now = 0
    /\ response = NoResponse
    /\ call \in MonteCarloCalls

CallCalculateMonteCarloVar ==
    /\ Len(call.results) < MaxCalls
    /\ LET out == calculate_monte_carlo_var(call.random_state, call.returns_df,
                      call.confidence_level, call.num_simulations)
       IN  call' = [call EXCEPT !.random_state = out.random_state,
                                !.entered = Append(@, call.random_state),
                                !.results = Append(@, out.ret)]
    /\ JobsUnchanged

\* Another job draws from the global generator (performance/attribution.py:54).
OtherDraw ==
    /\ call' = [call EXCEPT !.random_state = advance(@)]
    /\ JobsUnchanged

\* Another job seeds the global generator (factors/factor_model.py:42).
OtherSeed ==
    /\ call' = [call EXCEPT !.random_state = seed(@, SeedValue)]
    /\ JobsUnchanged

MonteCarloNext == CallCalculateMonteCarloVar \/ OtherDraw \/ OtherSeed

MonteCarloSpec == MonteCarloInit /\ [][MonteCarloNext]_vars

\* C22: two calls of calculate_monte_carlo_var with the same return sample,
\* confidence level and number of simulations return identical results,
\* whatever ran between them.
C22_Reproducible ==
    call.fn = "calculate_monte_carlo_var" =>
        \A i, j \in 1..Len(call.results) : call.results[i] = call.results[j]

\* Two calls that found the generator in different states and drew values
\* that are not all equal.
C22_Witness ==
    /\ call.fn = "calculate_monte_carlo_var"
    /\ Len(call.results) = 2
    /\ call.entered[1] # call.entered[2]
    /\ call.results[1].volatility # Zero
    /\ call.results[1].var # call.results[1].cvar

-----------------------------------------------------------------------------
\* performance/returns.py: calculate_portfolio_returns on portfolio_data =
\* {'positions': DataFrame(symbol, quantity), 'prices': DataFrame(date x symbol)}.
\* Here the prices frame is kept whole: prices[symbol][date] for the dates
\* 1..n of its index.

MaxDates == 3

PriceHistories ==
    UNION { UNION { [columns -> [1..n -> Prices]] : n \in 0..MaxDates } :
              columns \in SUBSET Symbols }

ReturnsData == [positions : Positions, prices : PriceHistories]

\* frame.index; a frame without columns has no rows here
Index(prices) ==
    IF DOMAIN prices = {} THEN {}
    ELSE DOMAIN prices[CHOOSE s \in DOMAIN prices : TRUE]

\* position_values[symbol] = prices[symbol] * quantity for the rows of
\* positions in order: a column per symbol, so a later row of the same symbol
\* replaces the column of the earlier one.
RECURSIVE position_values_frame(_, _)
position_values_frame(portfolio_data, i) ==
    IF i = 0 THEN [s \in {} |-> <<>>]
    ELSE LET before == position_values_frame(portfolio_data, i - 1)
             row == portfolio_data.positions[i]
             prices == portfolio_data.prices
         IN  IF row.symbol \in DOMAIN prices
             THEN [s \in DOMAIN before \cup {row.symbol} |->
                     IF s = row.symbol
                     THEN [d \in Index(prices) |-> prices[s][d] * row.quantity]
                     ELSE before[s]]
             ELSE before

\* position_values.sum(axis=1): a value per date of the frame's index; the
\* frame that got no column has no index.
portfolio_value_series(frame) ==
    [d \in Index(frame) |->
        SumOver([s \in DOMAIN frame |-> frame[s][d]], DOMAIN frame)]

\* Series.pct_change(): value / previous - 1. Division by zero gives inf or
\* -inf, written <<1, 0>> and <<-1, 0>>, and 0 / 0 gives NaN, written <<0, 0>>.
NaN == <<0, 0>>

pct_change(series) ==
    [d \in DOMAIN series |->
        IF d = 1 THEN NaN
        ELSE IF series[d - 1] = 0
        THEN << IF series[d] > 0 THEN 1 ELSE IF series[d] < 0 THEN -1 ELSE 0, 0 >>
        ELSE RSub(Rat(series[d], series[d - 1]), One)]

\* Series.dropna()
dropna(series) ==
    [d \in { d \in DOMAIN series : series[d] # NaN } |-> series[d]]

\* Called without benchmark_data. portfolio_value is the local of line 29,
\* kept beside the returned frame.
calculate_portfolio_returns(portfolio_data) ==
    LET frame ==
            position_values_frame(portfolio_data, Len(portfolio_data.positions))
        value == portfolio_value_series(frame)
        portfolio_returns == dropna(pct_change(value))
    IN  [exc |-> None,
         portfolio_value |-> value,
         portfolio_return |-> portfolio_returns]

ReturnsCalls ==
    { [fn |-> "calculate_portfolio_returns", portfolio_data |-> portfolio_data,
       done |-> FALSE, ret |-> Raise(None)] : portfolio_data \in ReturnsData }

ReturnsInit ==
    /\ calculation_jobs = [id \in {} |-> QueuedJob]
    /\ background = <<>>
    /\ cur = Idle
    /\ now = 0
    /\ response = NoResponse
    /\ call \in ReturnsCalls

CallCalculatePortfolioReturns ==
    /\ call.fn = "calculate_portfolio_returns" /\ ~call.done
    /\ Return(calculate_portfolio_returns(call.portfolio_data))
    /\ JobsUnchanged

ReturnsNext == CallCalculatePortfolioReturns

ReturnsSpec == ReturnsInit /\ [][ReturnsNext]_vars

ReturnsReturned == call.fn = "calculate_portfolio_returns" /\ call.done

\* The sum over all rows of positions whose symbol has a price column of
\* price * quantity on date d.
RECURSIVE AllPositionsValue(_, _, _)
AllPositionsValue(portfolio_data, d, i) ==
    IF i = 0 THEN 0
    ELSE LET row == portfolio_data.positions[i]
         IN  (IF row.symbol \in DOMAIN portfolio_data.prices
              THEN portfolio_data.prices[row.symbol][d] * row.quantity ELSE 0)
             + AllPositionsValue(portfolio_data, d, i - 1)

\* C23: the portfolio value on each date is the sum over all positions whose
\* symbol has a price column of price * quantity (several positions of one
\* symbol all counted, unpriced positions left out), and the return series
\* has one observation per date except the first.
C23_EveryPositionCounted ==
    ReturnsReturned =>
        LET portfolio_data == call.portfolio_data
            dates == Index(portfolio_data.prices)
        IN  /\ DOMAIN call.ret.portfolio_value = dates
            /\ \A d \in dates :
                 call.ret.portfolio_value[d] =
                     AllPositionsValue(portfolio_data, d, Len(portfolio_data.positions))
            /\ DOMAIN call.ret.portfolio_return = dates \ {1}

-----------------------------------------------------------------------------
\* Properties of the historical scenario test.

HistoricalReturned == call.fn = "historical_scenario_test" /\ call.done

\* The shock the catalogue gives a symbol under a scenario.
ScenarioShock(scenario_name, symbol) ==
    IF symbol \in DOMAIN scenarios[scenario_name]
    THEN scenarios[scenario_name][symbol]
    ELSE scenarios[scenario_name]["_default"]

\* quantity * current_price * (1 + shock) of one row of positions
RowStressedValue(portfolio_data, scenario_name, row) ==
    RMul(RInt(row.quantity * portfolio_data.prices.latest[row.symbol]),
         RAdd(One, ScenarioShock(scenario_name, row.symbol)))

\* C25: every position with price data is shocked by the scenario's return
\* for its symbol, or by _default, its stressed value is quantity *
\* current_price * (1 + shock), and the aggregate is the sum of the stressed
\* values of the positions; a scenario name outside the catalogue, the
\* missing name included, raises.
C25_EveryPositionShocked ==
    HistoricalReturned =>
        LET portfolio_data == call.portfolio_data
            rows == Priced(portfolio_data)
        IN  /\ call.arg \notin DOMAIN scenarios => call.ret.exc # None
            /\ (call.arg \in DOMAIN scenarios /\ portfolio_data.prices.rows > 0) =>
                 /\ call.ret.exc = None
                 /\ \A i \in 1..Len(rows) :
                      /\ rows[i].symbol \in DOMAIN call.ret.position_impacts
                      /\ call.ret.position_impacts[rows[i].symbol].shock_return =
                             ScenarioShock(call.arg, rows[i].symbol)
                      /\ call.ret.position_impacts[rows[i].symbol].stressed_value =
                             RowStressedValue(portfolio_data, call.arg, rows[i])
                 /\ call.ret.stressed_portfolio_value =
                        SeqSum([i \in 1..Len(rows) |->
                                  RowStressedValue(portfolio_data, call.arg, rows[i])])

-----------------------------------------------------------------------------
\* risk/risk_metrics.py: calculate_var. Lines 21-28 fetch the portfolio data
\* and compute returns_df; the repository's get_portfolio_data raises on the
\* None dates it is given (NoDateRange), a data source that answers gives a
\* return series. The outcome of these lines is an argument of the model's
\* function. The methods are historical and a name outside the three.

LookbackReturnValues == { Rat(-2, 100), Rat(1, 100) }
LookbackSamples == UNION { [1..n -> LookbackReturnValues] : n \in 1..MaxReturns }
LookbackDays == 0..(MaxReturns + 1)
Methods == { "historical", "bootstrap" }

PortfolioReturns ==
    { Raise(e) : e \in NoDateRange }
    \cup { [exc |-> None, portfolio_return |-> s] : s \in LookbackSamples }

\* returns_df.iloc[-lookback_days:]: the last lookback_days rows; -0 is 0, so
\* for lookback_days = 0 the slice starts at the first row.
iloc_last(returns_df, lookback_days) ==
    IF lookback_days = 0 THEN returns_df
    ELSE SubSeq(returns_df, Len(returns_df) - lookback_days + 1, Len(returns_df))

\* if len(returns_df) > lookback_days: returns_df = returns_df.iloc[-lookback_days:]
limit_to_lookback(returns_df, lookback_days) ==
    IF Len(returns_df) > lookback_days
    THEN iloc_last(returns_df, lookback_days)
    ELSE returns_df

calculate_var(portfolio_returns, confidence_level, method, lookback_days) ==
    IF portfolio_returns.exc # None THEN portfolio_returns
    ELSE LET returns_df ==
                 limit_to_lookback(portfolio_returns.portfolio_return, lookback_days)
         IN  IF method = "historical"
             THEN calculate_historical_var(returns_df, confidence_level)
             ELSE Raise(<<"Unknown VaR method: ", method>>)

CalculateVarCalls ==
    { [fn |-> "calculate_var", returns_df |-> portfolio_returns,
       confidence_level |-> confidence_level, method |-> method,
       lookback_days |-> lookback_days, done |-> FALSE, ret |-> Raise(None)] :
        portfolio_returns \in PortfolioReturns, confidence_level \in ConfidenceLevels,
        method \in Methods, lookback_days \in LookbackDays }

LookbackInit ==
    /\ calculation_jobs = [id \in {} |-> QueuedJob]
    /\ background = <<>>
    /\ cur = Idle
    /\ now = 0
    /\ response = NoResponse
    /\ call \in CalculateVarCalls

CallCalculateVar ==
    /\ call.fn = "calculate_var" /\ ~call.done
    /\ Return(calculate_var(call.returns_df, call.confidence_level, call.method,
                            call.lookback_days))
    /\ JobsUnchanged

LookbackNext == CallCalculateVar

LookbackSpec == LookbackInit /\ [][LookbackNext]_vars

\* A call whose data arrived and whose method is known.
VarDispatched ==
    /\ call.fn = "calculate_var" /\ call.done
    /\ call.returns_df.exc = None
    /\ call.method = "historical"

Min(a, b) == IF a <= b THEN a ELSE b

\* C26: calculate_var computes on exactly the last min(n, lookback_days)
\* observations of the n-observation return series, for every lookback_days
\* >= 0, lookback_days = 0 and lookback_days >= n included.
C26_LookbackWindow ==
    VarDispatched =>
        LET series == call.returns_df.portfolio_return
            n == Len(series)
            k == Min(n, call.lookback_days)
        IN  /\ call.ret.exc = None
            /\ call.ret.observations = k
            /\ k > 0 => call.ret = calculate_historical_var(
                                       SubSeq(series, n - k + 1, n), call.confidence_level)

-----------------------------------------------------------------------------
\* The cleanup loop for ever. cleanup_old_jobs is a while True loop whose body
\* is inside try/except Exception and which sleeps an hour between bodies
\* (server.py:318-336): after every sweep another sweep comes, and the wall
\* clock goes on. Weak fairness of the sweep and of the clock says so.

SweepSpec ==
    /\ FairSpec
    /\ WF_vars(cleanup_old_jobs)
    /\ WF_vars(Tick)

\* The job of task n is terminal and the clock of the model can pass its
\* retention time.
JobExpiring(n) ==
    /\ JobSettled(n)
    /\ JobTime(background[n].job_id) + RetentionSeconds < MaxTime

JobDeleted(n) == Submitted(n) /\ background[n].job_id \notin Jobs

-----------------------------------------------------------------------------
\* Properties of what the polls and the executions see of the job table.

\* C28: a poll that sees status completed also sees progress 1.0 and a
\* result, and a poll that sees status failed also sees an error: no poll
\* falls between the assignments that finish an execution.
C28_NoPartialCompletion ==
    (response.endpoint = "job" /\ response.code = 200) =>
        /\ response.status = "completed" =>
              response.progress = 10 /\ response.result # None
        /\ response.status = "failed" => response.error # None

\* A poll has seen a completed job while another task waits to start.
C28_Witness ==
    /\ response.endpoint = "job"
    /\ response.status = "completed"
    /\ response.progress = 10
    /\ \E n \in 1..Len(background) : background[n].state = "scheduled"


\* The step is one of task n's execution: its start or one of its statements.
Executes(n) ==
    /\ n \in 1..Len(background)
    /\ Len(background') = Len(background)
    /\ \/ cur = Idle /\ background[n].state = "scheduled"
                     /\ background'[n].state # "scheduled"
       \/ cur # Idle /\ cur.task = n /\ cur' # cur

\* C29: a step of a job's execution leaves the set of job ids and the record
\* of every other job as they are.
C29_OnlyOwnRecord ==
    [][\A n \in 1..MaxSubmissions :
          Executes(n) =>
             /\ DOMAIN calculation_jobs' = DOMAIN calculation_jobs
             /\ \A id \in Jobs \ { background[n].job_id } :
                   calculation_jobs'[id] = calculation_jobs[id]]_vars

\* An execution is between two statements and has written to its record
\* while the record of another job is in the table.
C29_Witness ==
    /\ cur # Idle
    /\ CurTask.job_id \in Jobs
    /\ calculation_jobs[CurTask.job_id].progress > 0
    /\ \E id \in Jobs : id # CurTask.job_id


\* C30: in every reachable state a failed job has no result, an error and
\* progress below 1.0, and a queued or running job has neither result nor
\* error.
C30_RecordShape ==
    \A id \in Jobs :
        LET job == calculation_jobs[id]
        IN  /\ job.status = "failed" =>
                 job.result = None /\ job.error # None /\ job.progress < 10
            /\ job.status \in {"queued", "running"} =>
                 job.result = None /\ job.error = None

====
